---- MODULE Spec2Model ----
(***************************************************************************)
(* rollthetech: fetch the build-your-own-x README, parse it to an mdast    *)
(* tree, extract the taxonomy (category name -> entry titles) from the     *)
(* root's children, then roll a category and a project (src/main.rs).      *)
(*                                                                         *)
(* Strings are sequences of characters; the template tokens "{blue}",      *)
(* "{bold}", "{white}", "{italic}" and "{-}" that the code writes into a   *)
(* title are kept as single elements of such a sequence.                   *)
(* Option<T> is a sequence of length 0 (None) or 1 (Some).                 *)
(***************************************************************************)
EXTENDS Integers, Sequences, FiniteSets, TLC

VARIABLES doc, pc, pos, current_category, categories, outcome, rolls, category, output

vars == <<doc, pc, pos, current_category, categories, outcome, rolls, category, output>>

\* Longest root child sequence explored.
MaxDoc == 3

None == <<>>
Some(v) == <<v>>

---------------------------------------------------------------------------
(* String literals of the program and of the synthetic documents *)

S_Build == <<"B", "u", "i", "l", "d">>
S_Contribute == <<"C", "o", "n", "t", "r", "i", "b", "u", "t", "e">>
S_X == <<"X">>
S_Y == <<"Y">>
S_Foo == <<"F", "o", "o">>
S_bar == <<"b", "a", "r">>
S_Empty == <<>>

\* str::starts_with
StartsWith(s, p) == Len(s) >= Len(p) /\ SubSeq(s, 1, Len(p)) = p

---------------------------------------------------------------------------
(* mdast nodes: one record shape for every variant *)

Text(v) == [type |-> "text", depth |-> 0, value |-> v, children |-> <<>>]
InlineCode(v) == [type |-> "inlineCode", depth |-> 0, value |-> v, children |-> <<>>]
ThematicBreak == [type |-> "thematicBreak", depth |-> 0, value |-> <<>>, children |-> <<>>]
Strong(ch) == [type |-> "strong", depth |-> 0, value |-> <<>>, children |-> ch]
Emphasis(ch) == [type |-> "emphasis", depth |-> 0, value |-> <<>>, children |-> ch]
Link(ch) == [type |-> "link", depth |-> 0, value |-> <<>>, children |-> ch]
Paragraph(ch) == [type |-> "paragraph", depth |-> 0, value |-> <<>>, children |-> ch]
ListItem(ch) == [type |-> "listItem", depth |-> 0, value |-> <<>>, children |-> ch]
List(ch) == [type |-> "list", depth |-> 0, value |-> <<>>, children |-> ch]
Heading(d, ch) == [type |-> "heading", depth |-> d, value |-> <<>>, children |-> ch]

\* Node::children() is None for the literal (leaf) variants
HasChildren(n) == n.type \notin {"text", "inlineCode", "thematicBreak"}

---------------------------------------------------------------------------
(* The synthetic documents: root child sequences over NodeSet *)

GoodItemFooBar == ListItem(<<Paragraph(<<Link(<<Strong(<<Text(S_Foo)>>), Text(<<":">>), Emphasis(<<Text(S_bar)>>)>>)>>)>>)
GoodItemBarFoo == ListItem(<<Paragraph(<<Link(<<Emphasis(<<Text(S_bar)>>), Strong(<<Text(S_Foo)>>)>>), Text(S_X)>>)>>)
GoodItemPlain == ListItem(<<Paragraph(<<Link(<<Text(S_Foo)>>)>>)>>)
ItemNoChildren == ListItem(<<>>)
ItemLeafFirst == ListItem(<<ThematicBreak>>)
ItemEmptyParagraph == ListItem(<<Paragraph(<<>>)>>)
ItemNoLink == ListItem(<<Paragraph(<<Text(S_Foo)>>)>>)
ItemStrongEmpty == ListItem(<<Paragraph(<<Link(<<Strong(<<>>)>>)>>)>>)
ItemEmphasisNoText == ListItem(<<Paragraph(<<Link(<<Emphasis(<<InlineCode(S_bar)>>)>>)>>)>>)

HeadingSet ==
    { Heading(2, <<Text(S_Contribute \o <<"!">>)>>),
      Heading(2, <<Text(S_Build), InlineCode(S_X)>>),
      Heading(3, <<Text(S_Build), InlineCode(S_Y)>>),
      Heading(4, <<Text(S_Build \o <<" ">>), InlineCode(S_X)>>),
      Heading(4, <<Text(S_Build), InlineCode(S_Y)>>),
      Heading(4, <<Text(S_Build), InlineCode(S_Empty)>>),
      Heading(4, <<Text(S_Contribute), InlineCode(S_Y)>>),
      Heading(4, <<>>),
      Heading(4, <<InlineCode(S_X)>>),
      Heading(4, <<Text(S_Build)>>),
      Heading(4, <<Text(S_Build), Text(S_X)>>) }

ListSet ==
    { List(<<GoodItemFooBar>>),
      List(<<GoodItemBarFoo, GoodItemPlain>>),
      List(<<ItemNoChildren>>),
      List(<<ItemLeafFirst>>),
      List(<<GoodItemPlain, ItemEmptyParagraph>>),
      List(<<ItemNoLink>>),
      List(<<ItemStrongEmpty>>),
      List(<<GoodItemFooBar, ItemEmphasisNoText>>) }

NodeSet == HeadingSet \cup ListSet

Docs == UNION { [1..n -> NodeSet] : n \in 0..MaxDoc }

---------------------------------------------------------------------------
(* Taxonomy extraction, src/main.rs:62-138 *)

\* depth-2 arm: first child is a text node starting with "Contribute"
IsContributeSecondChild(h) ==
    /\ Len(h.children) > 1
    /\ h.children[2].type = "text"
    /\ StartsWith(h.children[2].value, S_Contribute)

IsContribute(h) ==
    /\ Len(h.children) > 0
    /\ h.children[1].type = "text"
    /\ StartsWith(h.children[1].value, S_Contribute)

\* HashMap::insert(k, vec![]): a present key has its value replaced
InsertKeepExisting(cats, k) ==
    IF k \in DOMAIN cats THEN cats
    ELSE [x \in DOMAIN cats \cup {k} |-> IF x = k THEN <<>> ELSE cats[x]]

InsertForgotten(cats, k) == cats

Insert(cats, k) == [x \in DOMAIN cats \cup {k} |-> IF x = k THEN <<>> ELSE cats[x]]

\* depth-4 arm
Heading4StepReset(h, cur, cats) ==
    IF Len(h.children) = 0 \/ h.children[1].type # "text"
    THEN [status |-> "Parse", current |-> cur, categories |-> cats]
    ELSE IF StartsWith(h.children[1].value, S_Build)
    THEN IF Len(h.children) < 2
         THEN [status |-> "Panic", current |-> cur, categories |-> cats]
         ELSE IF h.children[2].type = "inlineCode"
         THEN [status |-> "Ok", current |-> Some(h.children[2].value),
               categories |-> Insert(cats, h.children[2].value)]
         ELSE [status |-> "Parse", current |-> cur, categories |-> cats]
    ELSE [status |-> "Ok", current |-> None, categories |-> cats]

Heading4Step(h, cur, cats) ==
    IF Len(h.children) = 0 \/ h.children[1].type # "text"
    THEN [status |-> "Parse", current |-> cur, categories |-> cats]
    ELSE IF StartsWith(h.children[1].value, S_Build)
    THEN IF Len(h.children) < 2
         THEN [status |-> "Panic", current |-> cur, categories |-> cats]
         ELSE IF h.children[2].type = "inlineCode"
         THEN [status |-> "Ok", current |-> Some(h.children[2].value),
               categories |-> Insert(cats, h.children[2].value)]
         ELSE [status |-> "Parse", current |-> cur, categories |-> cats]
    ELSE [status |-> "Ok", current |-> cur, categories |-> cats]

\* list arm guard: Some(cc) = &current_category && !cc.is_empty()
ListGuardNoEmptyCheck(cur) == cur # None

ListGuard(cur) == cur # None /\ Len(cur[1]) # 0

\* item.children().unwrap().first().unwrap().children().unwrap().first().unwrap()
NavigateToLink(item) ==
    IF ~HasChildren(item) \/ Len(item.children) = 0
    THEN [status |-> "Panic", node |-> item]
    ELSE LET p == item.children[1] IN
         IF ~HasChildren(p) \/ Len(p.children) = 0
         THEN [status |-> "Panic", node |-> p]
         ELSE IF p.children[1].type = "link"
         THEN [status |-> "Ok", node |-> p.children[1]]
         ELSE [status |-> "Parse", node |-> p.children[1]]

\* one arm of the match over a link child, with its write!
FragmentOfSwappedSeparator(c) ==
    IF c.type = "strong"
    THEN IF Len(c.children) = 0 THEN [status |-> "Panic", text |-> <<>>]
         ELSE IF c.children[1].type # "text" THEN [status |-> "Parse", text |-> <<>>]
         ELSE [status |-> "Ok",
               text |-> <<"{blue}", "{bold}">> \o c.children[1].value \o <<"{-}">>]
    ELSE IF c.type = "emphasis"
    THEN IF Len(c.children) = 0 THEN [status |-> "Panic", text |-> <<>>]
         ELSE IF c.children[1].type # "text" THEN [status |-> "Parse", text |-> <<>>]
         ELSE [status |-> "Ok",
               text |-> <<"{white}", "{italic}">> \o c.children[1].value \o <<"{-}", ":", " ">>]
    ELSE [status |-> "Ok", text |-> <<>>]

FragmentOf(c) ==
    IF c.type = "strong"
    THEN IF Len(c.children) = 0 THEN [status |-> "Panic", text |-> <<>>]
         ELSE IF c.children[1].type # "text" THEN [status |-> "Parse", text |-> <<>>]
         ELSE [status |-> "Ok",
               text |-> <<"{blue}", "{bold}">> \o c.children[1].value \o <<"{-}", ":", " ">>]
    ELSE IF c.type = "emphasis"
    THEN IF Len(c.children) = 0 THEN [status |-> "Panic", text |-> <<>>]
         ELSE IF c.children[1].type # "text" THEN [status |-> "Parse", text |-> <<>>]
         ELSE [status |-> "Ok",
               text |-> <<"{white}", "{italic}">> \o c.children[1].value \o <<"{-}">>]
    ELSE [status |-> "Ok", text |-> <<>>]

\* for link_child in &lnk.children, accumulating link_title
RECURSIVE BuildTitle(_, _, _)
BuildTitle(children, i, link_title) ==
    IF i > Len(children)
    THEN [status |-> "Ok", title |-> link_title]
    ELSE LET f == FragmentOf(children[i]) IN
         IF f.status # "Ok"
         THEN [status |-> f.status, title |-> link_title]
         ELSE BuildTitle(children, i + 1, link_title \o f.text)

\* for item in &l.children
RECURSIVE ProcessItems(_, _, _, _)
ProcessItems(items, i, cur, cats) ==
    IF i > Len(items)
    THEN [status |-> "Ok", current |-> cur, categories |-> cats]
    ELSE LET nav == NavigateToLink(items[i]) IN
         IF nav.status # "Ok"
         THEN [status |-> nav.status, current |-> cur, categories |-> cats]
         ELSE LET t == BuildTitle(nav.node.children, 1, <<>>) IN
              IF t.status # "Ok"
              THEN [status |-> t.status, current |-> cur, categories |-> cats]
              ELSE IF cur[1] \notin DOMAIN cats
              THEN [status |-> "Panic", current |-> cur, categories |-> cats]
              ELSE ProcessItems(items, i + 1, cur,
                                [cats EXCEPT ![cur[1]] = Append(@, t.title)])

\* list arm
ListStep(l, cur, cats) ==
    IF ListGuard(cur)
    THEN ProcessItems(l.children, 1, cur, cats)
    ELSE [status |-> "Ok", current |-> cur, categories |-> cats]

IsHeading2(n) == n.type = "heading" /\ n.depth = 2
IsHeading4(n) == n.type = "heading" /\ n.depth = 4
IsList(n) == n.type = "list"

\* the whole loop over root.children, as a function of the document
RECURSIVE Scan(_, _, _, _)
Scan(d, i, cur, cats) ==
    IF i > Len(d)
    THEN [status |-> "Ok", current |-> cur, categories |-> cats]
    ELSE IF IsHeading2(d[i])
    THEN IF IsContribute(d[i])
         THEN [status |-> "Ok", current |-> cur, categories |-> cats]
         ELSE Scan(d, i + 1, cur, cats)
    ELSE IF IsHeading4(d[i]) \/ IsList(d[i])
    THEN LET r == IF IsHeading4(d[i]) THEN Heading4Step(d[i], cur, cats)
                  ELSE ListStep(d[i], cur, cats) IN
         IF r.status # "Ok" THEN r ELSE Scan(d, i + 1, r.current, r.categories)
    ELSE Scan(d, i + 1, cur, cats)

Extract(d) == Scan(d, 1, None, <<>>)

---------------------------------------------------------------------------
(* The program as a state machine *)

Init ==
    /\ doc \in Docs
    /\ pc = "fetch"
    /\ pos = 1
    /\ current_category = None
    /\ categories = <<>>
    /\ outcome = "Running"
    /\ rolls = <<>>
    /\ category = None
    /\ output = None

\* download_md().await? ; markdown::to_mdast(..)
DownloadMd ==
    /\ pc = "fetch"
    /\ \E ok \in BOOLEAN :
          IF ok
          THEN pc' = "scan" /\ UNCHANGED outcome
          ELSE pc' = "done" /\ outcome' = "Fetch"
    /\ UNCHANGED <<doc, pos, current_category, categories, rolls, category, output>>

AtChild == pc = "scan" /\ pos <= Len(doc)

\* the effect of one match arm that returned status, current, categories
Apply(r) ==
    /\ current_category' = r.current
    /\ categories' = r.categories
    /\ IF r.status = "Ok"
       THEN pos' = pos + 1 /\ UNCHANGED <<pc, outcome>>
       ELSE pc' = "done" /\ outcome' = r.status /\ UNCHANGED pos
    /\ UNCHANGED <<doc, rolls, category, output>>

StepHeading2 ==
    /\ AtChild
    /\ IsHeading2(doc[pos])
    /\ IF IsContribute(doc[pos])
       THEN pc' = "roll_category" /\ UNCHANGED pos
       ELSE pos' = pos + 1 /\ UNCHANGED pc
    /\ UNCHANGED <<doc, current_category, categories, outcome, rolls, category, output>>

StepHeading4 ==
    /\ AtChild
    /\ IsHeading4(doc[pos])
    /\ Apply(Heading4Step(doc[pos], current_category, categories))

StepList ==
    /\ AtChild
    /\ IsList(doc[pos])
    /\ Apply(ListStep(doc[pos], current_category, categories))

StepOther ==
    /\ AtChild
    /\ ~IsHeading2(doc[pos]) /\ ~IsHeading4(doc[pos]) /\ ~IsList(doc[pos])
    /\ pos' = pos + 1
    /\ UNCHANGED <<doc, pc, current_category, categories, outcome, rolls, category, output>>

EndOfChildren ==
    /\ pc = "scan"
    /\ pos > Len(doc)
    /\ pc' = "roll_category"
    /\ UNCHANGED <<doc, pos, current_category, categories, outcome, rolls, category, output>>

\* roll_die(categories.keys().len(), ..) then categories.keys().nth(category_idx).unwrap().
\* The iteration order of the HashMap is arbitrary, so any key can be the nth.
\* With no key, whatever index the draw over 0..0 gives, nth(..) is None and unwrap panics.
RollCategory ==
    /\ pc = "roll_category"
    /\ rolls' = Append(rolls, Cardinality(DOMAIN categories))
    /\ IF DOMAIN categories = {}
       THEN pc' = "done" /\ outcome' = "Panic" /\ UNCHANGED category
       ELSE /\ \E k \in DOMAIN categories : category' = Some(k)
            /\ pc' = "roll_project"
            /\ UNCHANGED outcome
    /\ UNCHANGED <<doc, pos, current_category, categories, output>>

\* roll_die(projects.len(), ..) then println!(projects[project_idx]).
\* With no project, indexing the empty Vec panics.
RollProject ==
    /\ pc = "roll_project"
    /\ LET projects == categories[category[1]] IN
       /\ rolls' = Append(rolls, Len(projects))
       /\ IF Len(projects) = 0
          THEN outcome' = "Panic" /\ UNCHANGED output
          ELSE /\ \E project_idx \in 0..(Len(projects) - 1) :
                     output' = Some(projects[project_idx + 1])
               /\ outcome' = "Ok"
    /\ pc' = "done"
    /\ UNCHANGED <<doc, pos, current_category, categories, category>>

Next ==
    \/ DownloadMd
    \/ StepHeading2
    \/ StepHeading4
    \/ StepList
    \/ StepOther
    \/ EndOfChildren
    \/ RollCategory
    \/ RollProject

Spec == Init /\ [][Next]_vars

---------------------------------------------------------------------------
(* Vocabulary of the properties, stated on the document itself *)

HasPrefix(s, p) == Len(p) <= Len(s) /\ \A i \in 1..Len(p) : s[i] = p[i]

FirstIsText(n) == n.children # <<>> /\ n.children[1].type = "text"

BoundaryAt(d, i) ==
    /\ d[i].type = "heading" /\ d[i].depth = 2
    /\ FirstIsText(d[i])
    /\ HasPrefix(d[i].children[1].value, S_Contribute)

\* index of the first "Contribute" heading, Len(d) + 1 when there is none
FirstBoundary(d) ==
    IF \E i \in 1..Len(d) : BoundaryAt(d, i)
    THEN CHOOSE i \in 1..Len(d) : BoundaryAt(d, i) /\ \A j \in 1..(i - 1) : ~BoundaryAt(d, j)
    ELSE Len(d) + 1

Truncated(d) == [i \in 1..(FirstBoundary(d) - 1) |-> d[i]]

Depth4At(d, i) == d[i].type = "heading" /\ d[i].depth = 4

BuildHeadingAt(d, i) ==
    /\ Depth4At(d, i)
    /\ FirstIsText(d[i])
    /\ HasPrefix(d[i].children[1].value, S_Build)
    /\ Len(d[i].children) >= 2
    /\ d[i].children[2].type = "inlineCode"

NonBuildHeading(n) ==
    /\ n.type = "heading" /\ n.depth = 4
    /\ FirstIsText(n)
    /\ ~HasPrefix(n.children[1].value, S_Build)

\* the qualifying headings that precede the boundary, and their inline-code values
BuildIdx(d) == {i \in 1..(FirstBoundary(d) - 1) : BuildHeadingAt(d, i)}
KeyAt(d, i) == d[i].children[2].value
BuildKeys(d) == {KeyAt(d, i) : i \in BuildIdx(d)}

SetMin(S) == CHOOSE x \in S : \A y \in S : x <= y
SetMax(S) == CHOOSE x \in S : \A y \in S : x >= y

\* where the run of a heading at h ends: the next Build heading, or any depth-4 heading
NextBuildStop(d, h) ==
    SetMin({j \in (h + 1)..FirstBoundary(d) : j = FirstBoundary(d) \/ BuildHeadingAt(d, j)})
NextDepth4Stop(d, h) ==
    SetMin({j \in (h + 1)..FirstBoundary(d) : j = FirstBoundary(d) \/ Depth4At(d, j)})

\* number of list items at the root children strictly between a and b
RECURSIVE ItemsBetween(_, _, _)
ItemsBetween(d, a, b) ==
    IF a + 1 >= b THEN 0
    ELSE (IF d[a + 1].type = "list" THEN Len(d[a + 1].children) ELSE 0) + ItemsBetween(d, a + 1, b)

LastHeadingOf(d, k) == SetMax({i \in BuildIdx(d) : KeyAt(d, i) = k})

\* the loop over the root's children is over: normally, or by an error raised in it
ScanCompleted == pc = "roll_category"
ScanFailed == pc = "done" /\ rolls = <<>> /\ outcome \in {"Parse", "Panic"}

\* the state the loop leaves behind is the one extraction gives on document d
SameAsExtractOf(d) ==
    LET r == Extract(d) IN
    /\ categories = r.categories
    /\ current_category = r.current
    /\ (ScanCompleted <=> r.status = "Ok")
    /\ (ScanFailed => outcome = r.status)

---------------------------------------------------------------------------
(* C1 *)

\* C1 (as stated): when extraction completes, the keys are the inline-code values of the
\* depth-4 "Build" headings before the boundary, and each key's list is as long as the
\* number of list items between its heading and the next depth-4 heading of any kind
\* (or the boundary).
C1_AsStated ==
    (ScanCompleted /\ S_Empty \notin BuildKeys(doc)) =>
        /\ DOMAIN categories = BuildKeys(doc)
        /\ \A k \in DOMAIN categories :
              \E h \in BuildIdx(doc) :
                 /\ KeyAt(doc, h) = k
                 /\ Len(categories[k]) = ItemsBetween(doc, h, NextDepth4Stop(doc, h))

\* C1 (amended): when extraction completes, the keys are the inline-code values of the
\* depth-4 "Build" headings before the boundary, and each key's list is as long as the
\* number of list items between the last heading carrying that key and the next depth-4
\* "Build" heading (or the boundary); the list of the empty key is empty.
C1_Amended ==
    ScanCompleted =>
        /\ DOMAIN categories = BuildKeys(doc)
        /\ \A k \in DOMAIN categories :
              LET h == LastHeadingOf(doc, k) IN
              Len(categories[k]) =
                  IF k = S_Empty THEN 0 ELSE ItemsBetween(doc, h, NextBuildStop(doc, h))

\* a completed run where list items follow a non-"Build" depth-4 heading inside a category
C1_Witness ==
    /\ ScanCompleted
    /\ \E h \in BuildIdx(doc) :
          /\ categories[KeyAt(doc, h)] # <<>>
          /\ \E i \in (h + 1)..(NextBuildStop(doc, h) - 1) :
                /\ NonBuildHeading(doc[i])
                /\ ItemsBetween(doc, i, NextBuildStop(doc, h)) > 0

---------------------------------------------------------------------------
(* C2 *)

\* C2: the scan never moves past the first "Contribute" heading, and the taxonomy, the
\* current category and the error it ends with are those of the document cut at that
\* heading.
C2_StopsAtBoundary ==
    /\ pos <= FirstBoundary(doc)
    /\ (ScanCompleted \/ ScanFailed) => SameAsExtractOf(Truncated(doc))

\* a completed run with a category before the boundary and a childless depth-4 heading,
\* a "Build" heading and a list after it
C2_Witness ==
    /\ ScanCompleted
    /\ categories # <<>>
    /\ \E j \in (FirstBoundary(doc) + 1)..Len(doc) :
          \/ Depth4At(doc, j) /\ doc[j].children = <<>>
          \/ BuildHeadingAt(doc, j)
          \/ doc[j].type = "list"

---------------------------------------------------------------------------
(* C3 *)

WithoutNonBuild(d) == SelectSeq(d, LAMBDA n : ~NonBuildHeading(n))

C3_Frame ==
    (pc = "scan" /\ pos <= Len(doc) /\ NonBuildHeading(doc[pos])) =>
        /\ current_category' = current_category
        /\ categories' = categories
        /\ outcome' = "Running"
        /\ pc' = "scan"

C3_AsIfAbsent == (ScanCompleted \/ ScanFailed) => SameAsExtractOf(WithoutNonBuild(doc))

\* C3: a depth-4 heading whose first text does not start with "Build" changes neither the
\* current category nor the taxonomy and raises no error, and the run ends as it does on
\* the document without such headings.
C3_NonBuildIgnored == [][C3_Frame]_vars /\ []C3_AsIfAbsent

\* list items appended to a category across a non-"Build" depth-4 heading
C3_Witness ==
    /\ pc = "scan"
    /\ pos > 3
    /\ BuildHeadingAt(doc, pos - 3)
    /\ NonBuildHeading(doc[pos - 2])
    /\ doc[pos - 1].type = "list"
    /\ current_category # None
    /\ current_category[1] # S_Empty
    /\ categories[current_category[1]] # <<>>

---------------------------------------------------------------------------
(* C4 *)

MalformedHeading4(n) ==
    /\ n.type = "heading" /\ n.depth = 4
    /\ \/ ~FirstIsText(n)
       \/ /\ HasPrefix(n.children[1].value, S_Build)
          /\ (Len(n.children) < 2 \/ n.children[2].type # "inlineCode")

\* C4: every malformed depth-4 heading the scan reaches (no children, first child not a
\* text node, or a "Build" text whose second child is missing or not inline code) ends
\* the run with RollError::Parse.
C4_MalformedHeadingIsParse ==
    [][(pc = "scan" /\ pos <= Len(doc) /\ MalformedHeading4(doc[pos])) => outcome' = "Parse"]_vars

---------------------------------------------------------------------------
(* C5 *)

TextLed(c) == c.type \in {"strong", "emphasis"} => FirstIsText(c)

WellFormedItem(it) ==
    /\ it.children # <<>>
    /\ it.children[1].children # <<>>
    /\ it.children[1].children[1].type = "link"
    /\ \A j \in 1..Len(it.children[1].children[1].children) :
          TextLed(it.children[1].children[1].children[j])

ActiveCategory == current_category # None /\ current_category[1] # S_Empty

AtList == pc = "scan" /\ pos <= Len(doc) /\ doc[pos].type = "list"

\* C5: with a non-empty current category, a list holding a malformed item (no first
\* child, a first child without children, a nested first node that is not a link, a
\* strong or emphasis node whose first child is missing or not text) ends the run with
\* RollError::Parse.
C5_MalformedItemIsParse ==
    [][(AtList /\ ActiveCategory
          /\ \E j \in 1..Len(doc[pos].children) : ~WellFormedItem(doc[pos].children[j]))
        => outcome' = "Parse"]_vars

---------------------------------------------------------------------------
(* C6 *)

\* C6: every call of roll_die has n >= 1.
C6_RollsArePositive == \A i \in 1..Len(rolls) : rolls[i] >= 1

---------------------------------------------------------------------------
(* C7 *)

BoldColored(t) == <<"{blue}", "{bold}">> \o t \o <<"{-}">>
ItalicColored(t) == <<"{white}", "{italic}">> \o t \o <<"{-}">>

FragmentFor(c) ==
    CASE c.type = "strong" -> BoldColored(c.children[1].value) \o <<":", " ">>
      [] c.type = "emphasis" -> ItalicColored(c.children[1].value)
      [] OTHER -> <<>>

RECURSIVE Concatenation(_)
Concatenation(cs) == IF cs = <<>> THEN <<>> ELSE FragmentFor(Head(cs)) \o Concatenation(Tail(cs))

LinkOf(it) == it.children[1].children[1]

\* number of well-formed items a list starts with
RECURSIVE LeadingWellFormed(_)
LeadingWellFormed(items) ==
    IF items = <<>> \/ ~WellFormedItem(Head(items)) THEN 0
    ELSE 1 + LeadingWellFormed(Tail(items))

\* C7: processing a list under a non-empty current category appends, for each well-formed
\* item in order, exactly the concatenation of the fragments of its link's children:
\* bold-colored text and ": " for strong, italic-colored text for emphasis, nothing for
\* any other node.
C7_TitleIsConcatenation ==
    [][(AtList /\ ActiveCategory) =>
          LET cc == current_category[1]
              items == doc[pos].children
              n == LeadingWellFormed(items)
          IN categories'[cc] =
                categories[cc] \o [j \in 1..n |-> Concatenation(LinkOf(items[j]).children)]]_vars

\* the entry of strong "Foo" and emphasis "bar", and one with the emphasis first
C7_Witness ==
    \E k \in DOMAIN categories :
       /\ \E j \in 1..Len(categories[k]) :
             categories[k][j] = <<"{blue}", "{bold}", "F", "o", "o", "{-}", ":", " ",
                                  "{white}", "{italic}", "b", "a", "r", "{-}">>
       /\ \E j \in 1..Len(categories[k]) :
             categories[k][j] = <<"{white}", "{italic}", "b", "a", "r", "{-}",
                                  "{blue}", "{bold}", "F", "o", "o", "{-}", ":", " ">>

---------------------------------------------------------------------------
(* C8 *)

\* C8: a list reached with no current category, or with the empty string as current
\* category, changes neither the taxonomy nor the current category and raises no error,
\* whatever its items are.
C8_ListWithoutCategoryIsNoOp ==
    [][(AtList /\ ~ActiveCategory) =>
          /\ categories' = categories
          /\ current_category' = current_category
          /\ outcome' = "Running"
          /\ pc' = "scan"
          /\ pos' = pos + 1]_vars

\* a list with a malformed item was passed under the empty category name
C8_Witness ==
    /\ pc = "scan"
    /\ outcome = "Running"
    /\ current_category = Some(S_Empty)
    /\ pos > 1
    /\ doc[pos - 1].type = "list"
    /\ \E j \in 1..Len(doc[pos - 1].children) : ~WellFormedItem(doc[pos - 1].children[j])

---------------------------------------------------------------------------
(* C9 *)

\* C9: every key of the taxonomy is a non-empty string.
C9_KeysNonEmpty == \A k \in DOMAIN categories : k # S_Empty

---------------------------------------------------------------------------
(* C10 *)

\* C10: a current category that is set is a key of the taxonomy, and no list of
\* well-formed items aborts the run, so the lookup of the current category's entry list
\* when appending a title never fails.
C10_CurrentIsKey ==
    /\ current_category # None => current_category[1] \in DOMAIN categories
    /\ outcome = "Panic" /\ rolls = <<>> /\ pos <= Len(doc) /\ doc[pos].type = "list"
          => \E j \in 1..Len(doc[pos].children) : ~WellFormedItem(doc[pos].children[j])

\* entries were appended under the current category after a second category was opened
C10_Witness ==
    /\ current_category # None
    /\ Cardinality(DOMAIN categories) > 1
    /\ categories[current_category[1]] # <<>>

====
